---- MODULE Spec2Model ----
(***************************************************************************)
(* Model of Assignment_1/model.py (class ANN): the training loop           *)
(* L_layer_model with its convergence stop, the layer bookkeeping of the   *)
(* forward / backward / update passes, initialize_parameters, relu and     *)
(* relu_backward.                                                          *)
(*                                                                         *)
(* Numeric abstraction.  The values of the weight matrices are not         *)
(* carried.  A weight or bias is represented by the number of in-place     *)
(* updates applied to it and the index of the gradient entry last          *)
(* subtracted from it; a cache or gradient entry is represented by the     *)
(* layer and the batch it was computed from.  The validation accuracy      *)
(* returned by predict is a fraction correct / n_val; the number of        *)
(* correct columns is an input drawn at every evaluation.  relu and        *)
(* relu_backward are modelled on matrices whose entries are multiples of   *)
(* one half, an entry being the integer h that stands for h / 2.           *)
(***************************************************************************)
EXTENDS Integers, Sequences, FiniteSets, TLC

\* ------------------------------------------------------------------ bounds
MaxUnits == 4        \* data sets of up to MaxUnits * 31250 examples
MaxEpochs == 3       \* num_iterations ranges over 1..MaxEpochs
MaxLayers == 2       \* networks of 1..MaxLayers layers
MaxDims == 3         \* layer_dims of length 0..MaxDims for initialize_parameters
MaxLen == 3          \* relu on matrices of 1..MaxLen entries

\* ------------------------------------------------------- program constants
\* EPSILON = 0.001 is the fraction 1 / EPSILON_DEN
EPSILON_DEN == 1000
\* the divisor and the modulus of the sampling test (index / 500) % 100 == 0
SAMPLE_DIV == 500
SAMPLE_MOD == 100

VARIABLES
    pc,                 \* position in L_layer_model, or the pure-function specs
    X_size,             \* X.shape[1], the number of examples
    batch_size,
    num_iterations,
    layers_dims,
    n_layers,           \* self.n_layers
    n_val,              \* X_validation.shape[1]
    n_train,            \* X_train.shape[1]
    params,
    caches,
    grads,
    epoch,
    index,
    converged,
    prev_val_acc,
    acc,
    cost,
    history,
    accuracy_history,
    training_step,
    result,             \* the returned (params, history)
    batch_no,           \* number of forward passes over training batches so far
    sample_points,      \* the sampling points so far: batch number and accuracy
    ops,                \* passes run on the current batch, in order
    visited,            \* layers visited by the last backward pass, in order
    acc_params,         \* the parameters predict read at the last evaluation
    Z, A,               \* relu: input matrix and returned activations
    dA, dZ,             \* relu_backward: upstream gradient and result
    init_out            \* what initialize_parameters returned

trainer_vars == <<X_size, batch_size, num_iterations, n_layers, n_val,
                  n_train, params, caches, grads, epoch, index, converged,
                  prev_val_acc, acc, cost, history, accuracy_history,
                  training_step, result, batch_no, sample_points, ops,
                  visited, acc_params>>
relu_vars == <<Z, A, dA, dZ>>
vars == <<pc, layers_dims, trainer_vars, relu_vars, init_out>>

None == [none |-> TRUE]

\* ------------------------------------------------------------- helpers
Abs(x) == IF x < 0 THEN -x ELSE x

\* int(np.ceil(0.2 * n)): a fifth of n, rounded up
ValidationSize(n) == (n + 4) \div 5

\* ------------------------------------------------ initialize_parameters
\* A freshly drawn array: its shape, no update applied yet.
Fresh(rows, cols) == [shape |-> <<rows, cols>>, updates |-> 0, grad |-> None]

\* params[f'w{i}'] = randn(layer_dims[i], layer_dims[i - 1]) * sqrt(...),
\* params[f'b{i}'] = randn(layer_dims[i], 1)   (layer_dims is 0-based there)
LayerEntry(layer_dims, i) ==
    [w |-> Fresh(layer_dims[i + 1], layer_dims[i]),
     b |-> Fresh(layer_dims[i + 1], 1)]

\* self.n_layers = len(layer_dims) - 1; one w and one b per i in
\* range(1, len(layer_dims)); the length is not checked, nothing is raised.
InitializeParameters(layer_dims) ==
    [raised   |-> "none",
     n_layers |-> Len(layer_dims) - 1,
     params   |-> [i \in 1..(Len(layer_dims) - 1) |-> LayerEntry(layer_dims, i)]]

\* ----------------------------------------------------- relu, relu_backward
\* np.vectorize without otypes takes the output type from the call on the
\* first element: a float when that element is > 0 (the lambda returns x),
\* an integer when it is not (the lambda returns the literal 0).
ReluOtype(Zm) == IF Zm[1] > 0 THEN "float" ELSE "int"

\* conversion of the value h / 2 to the output type; an integer output
\* array truncates toward zero
CastTo(otype, h) ==
    IF otype = "float" THEN h
    ELSE IF h >= 0 THEN 2 * (h \div 2) ELSE -(2 * ((-h) \div 2))

\* relu_func = np.vectorize(lambda x: x if x > 0 else 0)
Relu(Zm) ==
    [A |-> [k \in 1..Len(Zm) |->
               CastTo(ReluOtype(Zm), IF Zm[k] > 0 THEN Zm[k] ELSE 0)],
     activation_cache |-> Zm]

\* d_relu = np.vectorize(lambda x: 1 if x > 0 else 0); return dA * d_relu(Z)
ReluBackward(dAm, activation_cache) ==
    [k \in 1..Len(dAm) |->
        dAm[k] * (IF activation_cache.Z[k] > 0 THEN 1 ELSE 0)]

\* ------------------------------------------------------- forward engine
\* linear_activation_forward: the cache of one layer holds the activations
\* it was fed (named by the layer that produced them, 0 for the batch),
\* the W and b it read and the cached Z of the activation.
LinearActivationForward(A_prev, W, B, activation, layer, batch) ==
    [A |-> A_prev, W |-> W, b |-> B, Z |-> activation,
     layer |-> layer, batch |-> batch]

\* L_model_forward: relu for layer_index in range(1, n_layers), softmax for
\* layer n_layers; returns the list of caches.
LModelForward(nl, parameters, batch) ==
    [k \in 1..(nl - 1) |->
        LinearActivationForward(k - 1, parameters[k].w, parameters[k].b,
                                "relu", k, batch)]
    \o <<LinearActivationForward(nl - 1, parameters[nl].w, parameters[nl].b,
                                 "softmax", nl, batch)>>

\* ------------------------------------------------------ backward engine
\* linear_activation_backward on one cache: dA_prev, dW, db of that layer
LinearActivationBackward(cache, activation) ==
    LET g(kind) == [kind |-> kind, layer |-> cache.layer, unit |-> activation,
                    batch |-> cache.batch]
    IN  [dA |-> g("dA"), dW |-> g("dW"), db |-> g("db")]

\* L_model_backward: index = n_layers - 1; Y is attached to caches[index];
\* the softmax unit on caches[index] fills the entries n_layers, then for i
\* in range(1, index + 1) the relu unit on caches[index - i] fills the
\* entries n_layers - i.  (caches is 0-based there, 1-based here.)
LModelBackward(nl, cs) ==
    LET idx == nl - 1
        withY == [cs EXCEPT ![idx + 1] = [A |-> @.A, W |-> @.W, b |-> @.b,
                                          Z |-> @.Z, layer |-> @.layer,
                                          batch |-> @.batch, Y |-> TRUE]]
        keys == {nl} \cup {nl - i : i \in 1..idx}
    IN  [grads |-> [k \in keys |->
                      IF k = nl
                      THEN LinearActivationBackward(withY[idx + 1], "softmax")
                      ELSE LinearActivationBackward(withY[idx - (nl - k) + 1], "relu")],
         caches |-> withY,
         visited |-> <<withY[idx + 1].layer>>
                     \o [i \in 1..idx |-> withY[idx - i + 1].layer]]

\* ---------------------------------------------------- parameter updater
\* parameters[key] -= learning_rate * g, in place
Subtract(p, g) == [shape |-> p.shape, updates |-> p.updates + 1, grad |-> g]

\* variant: the loop stops one layer short, range(1, layers_dim)
UpdateParametersSkipLast(parameters, gs) ==
    LET layers_dim == (2 * Len(parameters)) \div 2
    IN  [layer \in 1..Len(parameters) |->
            IF layer \in 1..(layers_dim - 1)
            THEN [w |-> Subtract(parameters[layer].w, gs[layer].dW),
                  b |-> Subtract(parameters[layer].b, gs[layer].db)]
            ELSE parameters[layer]]

\* layers_dim = int(len(parameters) / 2); for layer in range(1, layers_dim + 1)
UpdateParameters(parameters, gs) ==
    LET layers_dim == (2 * Len(parameters)) \div 2
    IN  [layer \in 1..Len(parameters) |->
            IF layer \in 1..layers_dim
            THEN [w |-> Subtract(parameters[layer].w, gs[layer].dW),
                  b |-> Subtract(parameters[layer].b, gs[layer].db)]
            ELSE parameters[layer]]

\* ----------------------------------------------------------- the trainer
\* variant: prev_val_acc = 0
InitialPrevValAccZero == [inf |-> FALSE, correct |-> 0]

\* prev_val_acc = np.inf
InitialPrevValAcc == [inf |-> TRUE, correct |-> 0]

\* if (index / 500) % 100 == 0: the quotient is a multiple of 100 exactly
\* when index is a multiple of 500 * 100
IsSamplingPoint(idx) == idx % (SAMPLE_DIV * SAMPLE_MOD) = 0

\* variant: <= EPSILON
CloseOrEqual(prev, correct, nv) ==
    IF prev.inf THEN FALSE
    ELSE EPSILON_DEN * Abs(prev.correct - correct) <= nv

\* np.absolute(prev_val_acc - acc) < EPSILON, for accuracies correct / nv;
\* the distance from np.inf is infinite.  The comparison is made on the
\* exact fractions; on the accuracies drawn below (CorrectCounts) the
\* double-precision comparison gives the same answer.
Close(prev, correct, nv) ==
    IF prev.inf THEN FALSE
    ELSE EPSILON_DEN * Abs(prev.correct - correct) < nv

\* the inputs of the runs explored
DataSizes == {0, 1, 5} \cup {31250 * k : k \in 1..MaxUnits}
BatchSizes == {25000, 40000, 50000}
TrainDims(L) == [k \in 1..(L + 1) |-> IF k = L + 1 THEN 2 ELSE 3]

\* the numbers of correct validation columns predict is let to report
CorrectCounts(nv) == {0, nv \div EPSILON_DEN, nv}

\* values of the variables a specification does not use
TrainerIdle ==
    /\ X_size = 0 /\ batch_size = 0 /\ num_iterations = 0 /\ n_layers = 0
    /\ n_val = 0 /\ n_train = 0 /\ params = <<>> /\ caches = <<>>
    /\ grads = <<>> /\ epoch = 0 /\ index = 0 /\ converged = FALSE
    /\ prev_val_acc = InitialPrevValAcc /\ acc = None /\ cost = None
    /\ history = <<>> /\ accuracy_history = <<>> /\ training_step = 0
    /\ result = None /\ batch_no = 0 /\ sample_points = <<>> /\ ops = <<>>
    /\ visited = <<>> /\ acc_params = None
ReluIdle == Z = <<>> /\ A = None /\ dA = <<>> /\ dZ = None

\* the call L_layer_model(X, Y, layers_dims, learning_rate, num_iterations,
\* batch_size) with a valid configuration
Init ==
    /\ pc = "setup"
    /\ X_size \in DataSizes
    /\ batch_size \in BatchSizes
    /\ num_iterations \in 1..MaxEpochs
    /\ layers_dims \in {TrainDims(L) : L \in 1..MaxLayers}
    /\ n_layers = 0 /\ n_val = 0 /\ n_train = 0
    /\ params = <<>> /\ caches = <<>> /\ grads = <<>>
    /\ epoch = 0 /\ index = 0 /\ converged = FALSE
    /\ prev_val_acc = InitialPrevValAcc /\ acc = None /\ cost = None
    /\ history = <<>> /\ accuracy_history = <<>> /\ training_step = 0
    /\ result = None /\ batch_no = 0 /\ sample_points = <<>> /\ ops = <<>>
    /\ visited = <<>> /\ acc_params = None
    /\ ReluIdle /\ init_out = None

\* lines 302-316: the split, initialize_parameters, the empty histories
Setup ==
    /\ pc = "setup"
    /\ n_val' = ValidationSize(X_size)
    /\ n_train' = X_size - ValidationSize(X_size)
    /\ params' = InitializeParameters(layers_dims).params
    /\ n_layers' = InitializeParameters(layers_dims).n_layers
    /\ prev_val_acc' = InitialPrevValAcc
    /\ converged' = FALSE
    /\ training_step' = 0
    /\ history' = <<>> /\ accuracy_history' = <<>>
    /\ epoch' = 0
    /\ pc' = "epoch"
    /\ UNCHANGED <<X_size, batch_size, num_iterations, layers_dims, caches,
                   grads, index, acc, cost, result, batch_no, sample_points,
                   ops, visited, acc_params, relu_vars, init_out>>

\* variant: the flag is not looked at when an epoch starts
StartEpochIgnoringFlag ==
    /\ pc = "epoch" /\ epoch < num_iterations
    /\ index' = 0
    /\ pc' = "batch"
    /\ UNCHANGED <<X_size, batch_size, num_iterations, layers_dims, n_layers,
                   n_val, n_train, params, caches, grads, epoch, converged,
                   prev_val_acc, acc, cost, history, accuracy_history,
                   training_step, result, batch_no, sample_points, ops,
                   visited, acc_params, relu_vars, init_out>>

\* line 317-323: an epoch starts and the flag is clear
StartEpoch ==
    /\ pc = "epoch" /\ epoch < num_iterations /\ ~converged
    /\ index' = 0
    /\ pc' = "batch"
    /\ UNCHANGED <<X_size, batch_size, num_iterations, layers_dims, n_layers,
                   n_val, n_train, params, caches, grads, epoch, converged,
                   prev_val_acc, acc, cost, history, accuracy_history,
                   training_step, result, batch_no, sample_points, ops,
                   visited, acc_params, relu_vars, init_out>>

\* lines 318-322: the flag is set when an epoch would start; the accuracies
\* are printed (predict reads the parameters) and the loop is left
ConvergedBreak ==
    /\ pc = "epoch" /\ epoch < num_iterations /\ converged
    /\ result' = [params |-> params, history |-> history]
    /\ pc' = "done"
    /\ UNCHANGED <<X_size, batch_size, num_iterations, layers_dims, n_layers,
                   n_val, n_train, params, caches, grads, epoch, index,
                   converged, prev_val_acc, acc, cost, history,
                   accuracy_history, training_step, batch_no, sample_points,
                   ops, visited, acc_params, relu_vars, init_out>>

\* lines 317, 341: range(num_iterations) is used up; return params, history
Return ==
    /\ pc = "epoch" /\ epoch = num_iterations
    /\ result' = [params |-> params, history |-> history]
    /\ pc' = "done"
    /\ UNCHANGED <<X_size, batch_size, num_iterations, layers_dims, n_layers,
                   n_val, n_train, params, caches, grads, epoch, index,
                   converged, prev_val_acc, acc, cost, history,
                   accuracy_history, training_step, batch_no, sample_points,
                   ops, visited, acc_params, relu_vars, init_out>>

\* line 323: range(0, X_train.shape[1], batch_size) is used up
EpochEnd ==
    /\ pc = "batch" /\ index >= n_train
    /\ epoch' = epoch + 1
    /\ pc' = "epoch"
    /\ UNCHANGED <<X_size, batch_size, num_iterations, layers_dims, n_layers,
                   n_val, n_train, params, caches, grads, index, converged,
                   prev_val_acc, acc, cost, history, accuracy_history,
                   training_step, result, batch_no, sample_points, ops,
                   visited, acc_params, relu_vars, init_out>>

\* variant: the forward pass rescales the weights it reads, in place
ForwardWritingParams ==
    /\ pc = "batch" /\ index < n_train
    /\ caches' = LModelForward(n_layers, params, batch_no + 1)
    /\ params' = [i \in 1..Len(params) |->
                    [w |-> Subtract(params[i].w, None), b |-> params[i].b]]
    /\ batch_no' = batch_no + 1
    /\ ops' = <<"forward">>
    /\ pc' = "sample"
    /\ UNCHANGED <<X_size, batch_size, num_iterations, layers_dims, n_layers,
                   n_val, n_train, grads, epoch, index, converged,
                   prev_val_acc, acc, cost, history, accuracy_history,
                   training_step, result, sample_points, visited, acc_params,
                   relu_vars, init_out>>

\* lines 324-326: the batch at index is cut and fed forward
Forward ==
    /\ pc = "batch" /\ index < n_train
    /\ caches' = LModelForward(n_layers, params, batch_no + 1)
    /\ batch_no' = batch_no + 1
    /\ ops' = <<"forward">>
    /\ pc' = "sample"
    /\ UNCHANGED <<X_size, batch_size, num_iterations, layers_dims, n_layers,
                   n_val, n_train, params, grads, epoch, index, converged,
                   prev_val_acc, acc, cost, history, accuracy_history,
                   training_step, result, sample_points, visited, acc_params,
                   relu_vars, init_out>>

\* line 327, the test fails: straight to the backward pass
SkipSample ==
    /\ pc = "sample" /\ ~IsSamplingPoint(index)
    /\ pc' = "backward"
    /\ UNCHANGED <<X_size, batch_size, num_iterations, layers_dims, n_layers,
                   n_val, n_train, params, caches, grads, epoch, index,
                   converged, prev_val_acc, acc, cost, history,
                   accuracy_history, training_step, result, batch_no,
                   sample_points, ops, visited, acc_params, relu_vars,
                   init_out>>

\* lines 327-329: acc = predict(X_validation, Y_validation, params) and
\* cost = compute_cost(z_output, batch_y)
Evaluate ==
    /\ pc = "sample" /\ IsSamplingPoint(index)
    /\ \E correct \in CorrectCounts(n_val) :
          /\ acc' = correct
          /\ sample_points' = Append(sample_points,
                                     [batch |-> batch_no, acc |-> correct])
    /\ cost' = [batch |-> batch_no]
    /\ acc_params' = params
    /\ pc' = "check"
    /\ UNCHANGED <<X_size, batch_size, num_iterations, layers_dims, n_layers,
                   n_val, n_train, params, caches, grads, epoch, index,
                   converged, prev_val_acc, history, accuracy_history,
                   training_step, result, batch_no, ops, visited, relu_vars,
                   init_out>>

\* variant: the flag is set but the batch loop is not left
ConvergeWithoutBreak ==
    /\ pc = "check" /\ Close(prev_val_acc, acc, n_val)
    /\ converged' = TRUE
    /\ prev_val_acc' = [inf |-> FALSE, correct |-> acc]
    /\ history' = Append(history, cost)
    /\ accuracy_history' = Append(accuracy_history, acc)
    /\ training_step' = training_step + 1
    /\ pc' = "backward"
    /\ UNCHANGED <<X_size, batch_size, num_iterations, layers_dims, n_layers,
                   n_val, n_train, params, caches, grads, epoch, index,
                   acc, cost, result, batch_no, sample_points, ops,
                   visited, acc_params, relu_vars, init_out>>

\* lines 330-332: the accuracies are closer than EPSILON; the flag is set and
\* the batch loop is left, which ends this iteration of the epoch loop
Converge ==
    /\ pc = "check" /\ Close(prev_val_acc, acc, n_val)
    /\ converged' = TRUE
    /\ epoch' = epoch + 1
    /\ pc' = "epoch"
    /\ UNCHANGED <<X_size, batch_size, num_iterations, layers_dims, n_layers,
                   n_val, n_train, params, caches, grads, index,
                   prev_val_acc, acc, cost, history, accuracy_history,
                   training_step, result, batch_no, sample_points, ops,
                   visited, acc_params, relu_vars, init_out>>

\* lines 333-338: otherwise the sample is recorded
Record ==
    /\ pc = "check" /\ ~Close(prev_val_acc, acc, n_val)
    /\ prev_val_acc' = [inf |-> FALSE, correct |-> acc]
    /\ history' = Append(history, cost)
    /\ accuracy_history' = Append(accuracy_history, acc)
    /\ training_step' = training_step + 1
    /\ pc' = "backward"
    /\ UNCHANGED <<X_size, batch_size, num_iterations, layers_dims, n_layers,
                   n_val, n_train, params, caches, grads, epoch, index,
                   converged, acc, cost, result, batch_no, sample_points, ops,
                   visited, acc_params, relu_vars, init_out>>

\* line 339: grads = self.L_model_backward(z_output, batch_y, cache)
Backward ==
    /\ pc = "backward"
    /\ grads' = LModelBackward(n_layers, caches).grads
    /\ caches' = LModelBackward(n_layers, caches).caches
    /\ visited' = LModelBackward(n_layers, caches).visited
    /\ ops' = Append(ops, "backward")
    /\ pc' = "update"
    /\ UNCHANGED <<X_size, batch_size, num_iterations, layers_dims, n_layers,
                   n_val, n_train, params, epoch, index, converged,
                   prev_val_acc, acc, cost, history, accuracy_history,
                   training_step, result, batch_no, sample_points, acc_params,
                   relu_vars, init_out>>

\* line 340: params = self.update_parameters(params, grads, learning_rate),
\* then the next index of the range
Update ==
    /\ pc = "update"
    /\ params' = UpdateParameters(params, grads)
    /\ ops' = Append(ops, "update")
    /\ index' = index + batch_size
    /\ pc' = "batch"
    /\ UNCHANGED <<X_size, batch_size, num_iterations, layers_dims, n_layers,
                   n_val, n_train, caches, grads, epoch, converged,
                   prev_val_acc, acc, cost, history, accuracy_history,
                   training_step, result, batch_no, sample_points, visited,
                   acc_params, relu_vars, init_out>>

Next ==
    \/ Setup \/ StartEpoch \/ ConvergedBreak \/ Return \/ EpochEnd
    \/ Forward \/ SkipSample \/ Evaluate \/ Converge \/ Record
    \/ Backward \/ Update

Spec == Init /\ [][Next]_vars

\* the loop is sequential code: every step that can be taken is taken
FairSpec == Spec /\ WF_vars(Next)

\* ------------------------------------------- relu and relu_backward alone
HalfValues == {-3, -1, 0, 1, 2, 3}
GradValues == {-1, 3}
Matrices(vals) == UNION {[1..n -> vals] : n \in 1..MaxLen}

InitRelu ==
    /\ pc = "relu"
    /\ Z \in Matrices(HalfValues)
    /\ dA \in {m \in Matrices(GradValues) : Len(m) = Len(Z)}
    /\ A = None /\ dZ = None
    /\ layers_dims = <<>> /\ init_out = None
    /\ TrainerIdle

\* A, activation_cache = self.relu(Z)
CallRelu ==
    /\ pc = "relu"
    /\ A' = Relu(Z).A
    /\ pc' = "relu_backward"
    /\ UNCHANGED <<layers_dims, trainer_vars, Z, dA, dZ, init_out>>

\* dZ = self.relu_backward(dA, cache), cache['Z'] being the Z relu cached
CallReluBackward ==
    /\ pc = "relu_backward"
    /\ dZ' = ReluBackward(dA, [Z |-> Relu(Z).activation_cache])
    /\ pc' = "relu_done"
    /\ UNCHANGED <<layers_dims, trainer_vars, Z, A, dA, init_out>>

NextRelu == CallRelu \/ CallReluBackward

SpecRelu == InitRelu /\ [][NextRelu]_vars

\* ------------------------------------------- initialize_parameters alone
DimValues == {1, 2, 3, 4}
LayerDimsInputs == UNION {[1..n -> DimValues] : n \in 0..MaxDims}

InitInitialize ==
    /\ pc = "init"
    /\ layers_dims \in LayerDimsInputs
    /\ init_out = None
    /\ TrainerIdle /\ ReluIdle

\* params = self.initialize_parameters(layers_dims)
CallInitializeParameters ==
    /\ pc = "init"
    /\ init_out' = InitializeParameters(layers_dims)
    /\ n_layers' = InitializeParameters(layers_dims).n_layers
    /\ params' = InitializeParameters(layers_dims).params
    /\ pc' = "init_done"
    /\ UNCHANGED <<layers_dims, X_size, batch_size, num_iterations, n_val,
                   n_train, caches, grads, epoch, index, converged,
                   prev_val_acc, acc, cost, history, accuracy_history,
                   training_step, result, batch_no, sample_points, ops,
                   visited, acc_params, relu_vars>>

NextInitialize == CallInitializeParameters

SpecInitialize == InitInitialize /\ [][NextInitialize]_vars

\* ====================================================== the properties
\* the Trainer's state
TrainerState ==
    IF pc = "done" THEN (IF converged THEN "Converged" ELSE "Exhausted")
    ELSE IF converged THEN "Converged" ELSE "Running"

NumSamples == Len(sample_points)
LastSample == sample_points[NumSamples]
\* the validation accuracies of the last two sampling points differ by less
\* than EPSILON = 1 / EPSILON_DEN
LastTwoWithinEpsilon ==
    /\ NumSamples >= 2
    /\ EPSILON_DEN * Abs(sample_points[NumSamples].acc
                         - sample_points[NumSamples - 1].acc) < n_val
\* ceil(n_train / batch_size), the batches of one epoch
BatchesPerEpoch == (n_train + batch_size - 1) \div batch_size

\* C1: at every sampling point after the first, the Trainer becomes
\* Converged exactly when the validation accuracy evaluated there differs
\* from the one evaluated at the immediately preceding sampling point by
\* less than EPSILON.
C1_ConvergedIffWithinEpsilon ==
    [][(pc = "check" /\ NumSamples >= 2)
          => (converged' <=> LastTwoWithinEpsilon)]_vars

\* C1 witness: convergence detected on two accuracies that differ, by less
\* than EPSILON
C1_Witness ==
    /\ converged /\ NumSamples >= 2
    /\ sample_points[NumSamples].acc # sample_points[NumSamples - 1].acc
    /\ LastTwoWithinEpsilon

\* C2: once convergence is detected nothing more is run: the batch of the
\* detection has had its forward pass only, no later batch is fed forward,
\* no epoch is started, and the parameters, up to and including the returned
\* ones, are those predict read for the converging accuracy.
C2_StopsImmediately ==
    converged =>
        /\ pc \in {"epoch", "done"}
        /\ ops = <<"forward">>
        /\ batch_no = LastSample.batch
        /\ params = acc_params
        /\ (pc = "done" => result.params = acc_params)

\* C2 witness: a run that converged after some updates and has returned
C2_Witness ==
    /\ pc = "done" /\ converged
    /\ params[1].w.updates >= 2
    /\ epoch < num_iterations

\* C3: every run ends, in exactly one of Converged (a sampling point within
\* EPSILON of its predecessor was met, and the run stopped there) and
\* Exhausted (no such point, and exactly num_iterations complete epochs were
\* run); both return the parameters and the history.
C3_Terminates ==
    /\ <>(pc = "done")
    /\ [](pc = "done" =>
            /\ result = [params |-> params, history |-> history]
            /\ IF LastTwoWithinEpsilon
               THEN TrainerState = "Converged" /\ batch_no = LastSample.batch
               ELSE /\ TrainerState = "Exhausted"
                    /\ epoch = num_iterations
                    /\ batch_no = num_iterations * BatchesPerEpoch)

\* C3 witness: a run exhausted after several epochs of several batches
C3_Witness ==
    /\ pc = "done" /\ TrainerState = "Exhausted"
    /\ num_iterations >= 2 /\ BatchesPerEpoch >= 2 /\ NumSamples >= 3

\* C4: the number of batches between two consecutive sampling points is one
\* constant over the whole run, epoch boundary or not.
C4_FixedCadence ==
    \A i, j \in 2..NumSamples :
        sample_points[i].batch - sample_points[i - 1].batch
            = sample_points[j].batch - sample_points[j - 1].batch

\* C5: the history holds one entry per sampling point reached, the one at
\* which convergence was detected included: at termination the number of
\* history entries equals the number of sampling points.
C5_HistoryComplete ==
    /\ Len(history) <= NumSamples
    /\ (pc = "done" => Len(history) = NumSamples)

\* C6: initialize_parameters signals a ConfigurationError for a layer_dims
\* of fewer than 2 elements, and for a longer one returns, without error,
\* exactly one w and one b for each layer 1..len(layer_dims)-1.
C6_ShortDimsRejected ==
    pc = "init_done" =>
        IF Len(layers_dims) < 2
        THEN init_out.raised = "ConfigurationError"
        ELSE /\ init_out.raised = "none"
             /\ DOMAIN init_out.params = 1..(Len(layers_dims) - 1)
             /\ \A i \in DOMAIN init_out.params :
                    DOMAIN init_out.params[i] = {"w", "b"}

\* C7: after the set-up, only update_parameters changes the parameters:
\* the forward pass, predict, compute_cost and the backward pass leave them
\* as they are.
C7_OnlyUpdateChangesParams ==
    [][(pc # "setup" /\ params' # params) => pc = "update"]_vars

\* C7 witness: forward, predict, cost and backward have run on a batch and
\* the parameters are still those the previous update left
C7_Witness ==
    /\ pc = "update" /\ batch_no >= 2
    /\ LastSample.batch = batch_no
    /\ \A i \in 1..n_layers : params[i].w.updates = batch_no - 1
    /\ acc_params = params

\* C8: relu returns x where x > 0 and 0 elsewhere, entry by entry, and
\* relu_backward passes the upstream gradient where the cached entry is > 0
\* and 0 elsewhere.
C8_ReluElementwise ==
    /\ (pc \in {"relu_backward", "relu_done"} =>
          \A k \in 1..Len(Z) : A[k] = (IF Z[k] > 0 THEN Z[k] ELSE 0))
    /\ (pc = "relu_done" =>
          \A k \in 1..Len(Z) : dZ[k] = (IF Z[k] > 0 THEN dA[k] ELSE 0))

\* C9: a batch that did not trigger convergence has had forward, backward
\* and update once each, in that order; the backward pass went through the
\* layers L, L-1, ..., 1, softmax for L and relu below, and left dA, dW, db
\* for every layer; the update subtracted dW_i from W_i and db_i from b_i for
\* every layer i.
C9_EveryLayerEveryBatch ==
    (pc = "batch" /\ batch_no >= 1) =>
        /\ ops = <<"forward", "backward", "update">>
        /\ visited = [k \in 1..n_layers |-> n_layers - k + 1]
        /\ DOMAIN grads = 1..n_layers
        /\ \A i \in 1..n_layers :
              /\ \A kind \in {"dA", "dW", "db"} :
                    grads[i][kind] =
                        [kind |-> kind, layer |-> i, batch |-> batch_no,
                         unit |-> IF i = n_layers THEN "softmax" ELSE "relu"]
              /\ params[i].w.updates = batch_no
              /\ params[i].b.updates = batch_no
              /\ params[i].w.grad = grads[i].dW
              /\ params[i].b.grad = grads[i].db

\* C9 witness: the second batch of a network of several layers is through
C9_Witness ==
    /\ pc = "batch" /\ batch_no >= 2 /\ n_layers >= 2
    /\ ops = <<"forward", "backward", "update">>

\* C10 as stated: the check at the first sampling point can fire, that is,
\* some accuracy predict can return there makes it fire.
C10_FirstCheckCanFire ==
    (pc = "sample" /\ IsSamplingPoint(index) /\ NumSamples = 0)
        => \E correct \in 0..n_val : Close(prev_val_acc, correct, n_val)

\* C10 amended: the check never fires at the first sampling point of a run;
\* the Trainer is Converged only from the second sampling point on.
C10_NeverAtFirstSample == converged => NumSamples >= 2

\* C10 witness: the first sampling point is passed, with no correct
\* column, and the run goes on
C10_Witness ==
    /\ pc = "backward" /\ NumSamples = 1 /\ acc = 0 /\ ~converged

====
